---- MODULE Spec2Model ----
(***************************************************************************)
(* Constraint-based candidate selection (kafkazk constraints) and the      *)
(* storage rebalance planner (topicmappr rebalance steps) of kafka-kit.    *)
(*                                                                         *)
(* Storage figures are Go float64 in the source.  They are modelled as     *)
(* integers and every comparison against mean*(1 +/- tolerance) is done    *)
(* exactly, by cross-multiplication; floating point rounding is not        *)
(* modelled.  The tolerance is a percentage (50 stands for 0.50).          *)
(***************************************************************************)
EXTENDS Integers, Sequences, FiniteSets, TLC

\* ------------------------------------------------------------------ bounds
NumBrokers == 3
MaxListLen == 3
MaxStorage == 1
MaxRequest == 1
MaxForbiddenID == 1
NumPartitions == 2
Replication == 2
MaxSize == 2
MaxFree == 4
TopLimit == 2
MaxThrottleList == 2
NumMetricBrokers == 2
MaxPhaseReplicas == 2
MaxPass == 6

BrokerIDs == 1..NumBrokers
Localities == {"", "a", "b"}
Methods == {"count", "storage", "random"}
Seeds == {0, 1}
FreeLevels == {0, MaxFree}
RackIDs == {"", "a"}
Tolerances == {0, 50, 100}
ThresholdsGB == {0, 1}

\* ----------------------------------------------------------------- helpers
Range(s) == {s[i] : i \in 1..Len(s)}

RemoveAt(s, i) == [j \in 1..(Len(s) - 1) |-> IF j < i THEN s[j] ELSE s[j + 1]]

Perms(s) ==
  {[i \in 1..Len(s) |-> s[f[i]]] :
     f \in {g \in [1..Len(s) -> 1..Len(s)] :
              \A i, j \in 1..Len(s) : i # j => g[i] # g[j]}}

\* ------------------------------------------------------- kafkazk: brokers
\* A *Broker is a record of the fields the selector and the planner read or
\* write: ID, Locality, StorageFree, Used, Replace.

\* brokersByStorage.Less: storage free descending, ties by ascending ID.
brokersByStorageLess(x, y) ==
  \/ x.StorageFree > y.StorageFree
  \/ (x.StorageFree = y.StorageFree /\ x.ID < y.ID)

\* sort.Sort(brokersByStorage(b)).
RECURSIVE SortByStorage(_)
SortByStorage(s) ==
  IF s = <<>> THEN <<>>
  ELSE LET i == CHOOSE k \in 1..Len(s) :
                  \A j \in 1..Len(s) :
                     j # k => \/ brokersByStorageLess(s[k], s[j])
                              \/ (~brokersByStorageLess(s[j], s[k]) /\ k < j)
       IN <<s[i]>> \o SortByStorage(RemoveAt(s, i))

\* b.SortPseudoShuffle(p): a reordering of the list fixed by the seed.  The
\* generator is not part of the model: every permutation is a possible result.
SortPseudoShuffle(s, p) == Perms(s)

\* --------------------------------------------------- kafkazk: constraints
NoError == "<nil>"
errInvalidSelectionMethod == "Invalid selection method"

ErrStorage(b) == "Locality " \o b.Locality \o " exhausted of storage capacity"
ErrLocality(b) == "Locality " \o b.Locality \o " exhausted of available brokers"
ErrID(b) == "ID " \o ToString(b.ID) \o " already in replica set"

\* newConstraints().
newConstraints == [requestSize |-> 0, locality |-> {}, id |-> {}]

\* A plausible slip: the ID check moved in front of the other two.
passesIDFirst(cs, b) ==
  CASE b.ID \in cs.id -> ErrID(b)
    [] b.StorageFree - cs.requestSize < 0 -> ErrStorage(b)
    [] b.Locality \in cs.locality -> ErrLocality(b)
    [] OTHER -> NoError

\* A plausible slip: the storage check is left out.
passesNoStorageCheck(cs, b) ==
  CASE b.Locality \in cs.locality -> ErrLocality(b)
    [] b.ID \in cs.id -> ErrID(b)
    [] OTHER -> NoError

\* constraints.passes: the first case of the switch that holds decides.
passes(cs, b) ==
  CASE b.StorageFree - cs.requestSize < 0 -> ErrStorage(b)
    [] b.Locality \in cs.locality -> ErrLocality(b)
    [] b.ID \in cs.id -> ErrID(b)
    [] OTHER -> NoError

\* A plausible slip: the request size is not charged to the broker.
addNoCharge(cs, b) ==
  [cs |-> [cs EXCEPT !.locality = IF b.Locality # "" THEN @ \cup {b.Locality} ELSE @,
                     !.id = @ \cup {b.ID}],
   b |-> b]

\* constraints.add: the broker is charged the request size, and the
\* constraints take its locality (when it has one) and its ID.
add(cs, b) ==
  [cs |-> [cs EXCEPT !.locality = IF b.Locality # "" THEN @ \cup {b.Locality} ELSE @,
                     !.id = @ \cup {b.ID}],
   b |-> [b EXCEPT !.StorageFree = @ - cs.requestSize]]

\* A plausible slip: brokers marked for replacement are merged in too.
mergeConstraintsAll(s) ==
  [requestSize |-> 0,
   locality |-> {s[i].Locality : i \in {k \in 1..Len(s) : s[k].Locality # ""}},
   id |-> {s[i].ID : i \in 1..Len(s)}]

\* mergeConstraints: IDs and non-empty localities of the brokers of bl that
\* are not marked for replacement.
mergeConstraints(s) ==
  [requestSize |-> 0,
   locality |-> {s[i].Locality : i \in {k \in 1..Len(s) : ~s[k].Replace /\ s[k].Locality # ""}},
   id |-> {s[i].ID : i \in {k \in 1..Len(s) : ~s[k].Replace}}]

\* The walk of bestCandidate over the ordered list: the first broker that
\* passes is added to the constraints and has Used incremented; when none
\* passes the error is the one left by the last broker walked (nil for an
\* empty list).
RECURSIVE walk(_, _, _, _)
walk(s, cs, i, lastErr) ==
  IF i > Len(s)
  THEN [list |-> s, cs |-> cs, ret |-> <<>>, err |-> lastErr]
  ELSE LET e == passes(cs, s[i]) IN
       IF e = NoError
       THEN LET a == add(cs, s[i])
                chosen == [a.b EXCEPT !.Used = @ + 1]
            IN [list |-> [s EXCEPT ![i] = chosen], cs |-> a.cs,
                ret |-> <<chosen>>, err |-> NoError]
       ELSE walk(s, cs, i + 1, e)

\* A plausible slip: the "storage" method walks the list as it was given.
bestCandidateUnsorted(s, cs, by, p) ==
  CASE by = "count" -> {walk(o, cs, 1, NoError) : o \in SortPseudoShuffle(s, p)}
    [] by = "storage" -> {walk(s, cs, 1, NoError)}
    [] OTHER -> {[list |-> s, cs |-> cs, ret |-> <<>>, err |-> errInvalidSelectionMethod]}

\* A plausible slip: an unknown method falls through to the "storage" sort.
bestCandidateDefaultStorage(s, cs, by, p) ==
  CASE by = "count" -> {walk(o, cs, 1, NoError) : o \in SortPseudoShuffle(s, p)}
    [] OTHER -> {walk(SortByStorage(s), cs, 1, NoError)}

\* brokerList.bestCandidate: the set of possible outcomes (one, but for the
\* pseudo-shuffle).  list is the caller's slice after the in-place sort.
bestCandidate(s, cs, by, p) ==
  CASE by = "count" -> {walk(o, cs, 1, NoError) : o \in SortPseudoShuffle(s, p)}
    [] by = "storage" -> {walk(SortByStorage(s), cs, 1, NoError)}
    [] OTHER -> {[list |-> s, cs |-> cs, ret |-> <<>>, err |-> errInvalidSelectionMethod]}

\* ------------------------------------------------ kafkazk: maps (rebalance)
TopicName == "t1"

\* BrokerMap.List(): the brokers of the map as a list (map order is not
\* fixed; every use sorts the list).
RECURSIVE ListOf(_, _)
ListOf(brks, ids) ==
  IF ids = {} THEN <<>>
  ELSE LET id == CHOOSE x \in ids : \A y \in ids : x <= y
       IN <<brks[id]>> \o ListOf(brks, ids \ {id})

List(brks) == ListOf(brks, DOMAIN brks)

\* The broker map after the brokers of a list (pointers into the map) changed.
FromList(brks, s) ==
  [id \in DOMAIN brks |->
     IF \E i \in 1..Len(s) : s[i].ID = id
     THEN s[CHOOSE i \in 1..Len(s) : s[i].ID = id]
     ELSE brks[id]]

\* BrokerMap.Mean(): the arithmetic mean of StorageFree, kept as the sum and
\* the number of brokers.
RECURSIVE SumFree(_, _)
SumFree(brks, ids) ==
  IF ids = {} THEN 0
  ELSE LET id == CHOOSE x \in ids : TRUE
       IN brks[id].StorageFree + SumFree(brks, ids \ {id})

MeanSum(brks) == SumFree(brks, DOMAIN brks)

MeanCount(brks) == Cardinality(DOMAIN brks)

\* PartitionMetaMap.Size(p).
Size(meta, p) == meta[p.Topic][p.Partition]

\* PartitionMap.Mappings(): for each broker, the partitions it holds.
Mappings(pmap, ids) ==
  [id \in ids |-> {p \in Range(pmap) : id \in Range(p.Replicas)}]

\* Mappings.LargestPartitions(id, k, meta): the k largest partitions mapped
\* to the broker, largest first, equal sizes by topic and partition number.
partitionsBySizeLess(meta, x, y) ==
  \/ Size(meta, x) > Size(meta, y)
  \/ (Size(meta, x) = Size(meta, y) /\ x.Partition < y.Partition)

RECURSIVE SortBySize(_, _)
SortBySize(meta, ps) ==
  IF ps = {} THEN <<>>
  ELSE LET x == CHOOSE q \in ps : \A o \in ps : o # q => partitionsBySizeLess(meta, q, o)
       IN <<x>> \o SortBySize(meta, ps \ {x})

LargestPartitions(maps, id, k, meta) ==
  LET all == SortBySize(meta, maps[id])
  IN SubSeq(all, 1, IF Len(all) < k THEN Len(all) ELSE k)

\* Mappings.Remove(id, p).
MappingsRemove(maps, id, p) == [maps EXCEPT ![id] = @ \ {p}]

\* SimpleLeaderOptimization, per topic: while some partition led by L holds a
\* follower U and moving the leadership to U lowers the variance of the
\* leadership counts (L leads at least two more partitions than U), U takes
\* position 0 and L takes U's position.  Partitions and positions are tried
\* in order.
LeaderCount(pmap, topic, id) ==
  Cardinality({i \in 1..Len(pmap) : pmap[i].Topic = topic /\ pmap[i].Replicas[1] = id})

LeaderSwaps(pmap) ==
  UNION {{<<i, j>> : j \in {k \in 2..Len(pmap[i].Replicas) :
                               LeaderCount(pmap, pmap[i].Topic, pmap[i].Replicas[1])
                                 - LeaderCount(pmap, pmap[i].Topic, pmap[i].Replicas[k]) >= 2}} :
           i \in 1..Len(pmap)}

RECURSIVE SimpleLeaderOptimization(_)
SimpleLeaderOptimization(pmap) ==
  IF LeaderSwaps(pmap) = {} THEN pmap
  ELSE LET sw == CHOOSE x \in LeaderSwaps(pmap) :
                   \A y \in LeaderSwaps(pmap) :
                      x[1] < y[1] \/ (x[1] = y[1] /\ x[2] <= y[2])
           r == pmap[sw[1]].Replicas
       IN SimpleLeaderOptimization(
            [pmap EXCEPT ![sw[1]].Replicas = [r EXCEPT ![1] = r[sw[2]], ![sw[2]] = r[1]]])

\* ------------------------------------------------- topicmappr: rebalance
\* offloadTargetsBySize.Less: storage free ascending, ties by ascending ID.
offloadTargetsLess(brks, x, y) ==
  \/ brks[x].StorageFree < brks[y].StorageFree
  \/ (brks[x].StorageFree = brks[y].StorageFree /\ x < y)

\* sort.Sort(offloadTargetsBySize{t, bm}).
RECURSIVE SortTargets(_, _)
SortTargets(brks, ids) ==
  IF ids = {} THEN <<>>
  ELSE LET x == CHOOSE q \in ids : \A o \in ids : o # q => offloadTargetsLess(brks, q, o)
       IN <<x>> \o SortTargets(brks, ids \ {x})

\* Map lookups that miss give the zero value (a nil slice).
PlanPairs(pl, p) ==
  IF p.Topic \in DOMAIN pl /\ p.Partition \in DOMAIN pl[p.Topic]
  THEN pl[p.Topic][p.Partition] ELSE <<>>

RelosOf(rl, id) == IF id \in DOMAIN rl THEN rl[id] ELSE <<>>

\* relocationPlan.add.
planAdd(pl, p, ids) ==
  LET withTopic == IF p.Topic \in DOMAIN pl THEN pl ELSE pl @@ (p.Topic :> <<>>)
      inner == withTopic[p.Topic]
      pairs == IF p.Partition \in DOMAIN inner THEN inner[p.Partition] ELSE <<>>
  IN [withTopic EXCEPT ![p.Topic] =
        (p.Partition :> Append(pairs, ids)) @@ inner]

\* relocationPlan.isPlanned.
isPlanned(pl, p) ==
  IF p.Topic \notin DOMAIN pl THEN [pairs |-> <<>>, planned |-> FALSE]
  ELSE IF p.Partition \notin DOMAIN pl[p.Topic] THEN [pairs |-> <<>>, planned |-> FALSE]
  ELSE [pairs |-> pl[p.Topic][p.Partition], planned |-> TRUE]

\* The offload targets of validateBrokersForRebalance: with a threshold in
\* GB, the brokers that are not new and have less storage free; with none and
\* a storage threshold of 0, every broker that is not new.
offloadTargets(brks, news, stg) ==
  IF stg > 0
  THEN {id \in DOMAIN brks : id \notin news /\ brks[id].StorageFree < stg}
  ELSE {id \in DOMAIN brks : id \notin news}

\* A plausible slip: offload targets are not skipped.
destinationScopedAnyBroker(brokerList, targetLocality, sourceID, targets) ==
  LET ok == {i \in 1..Len(brokerList) :
               /\ brokerList[i].Locality = targetLocality
               /\ brokerList[i].ID # sourceID}
  IN IF ok = {} THEN <<>>
     ELSE <<brokerList[CHOOSE i \in ok : \A j \in ok : i <= j]>>

\* Locality scoped destination: the first broker of the storage sorted list
\* in the source's locality that is neither the source nor an offload target.
destinationScoped(brokerList, targetLocality, sourceID, targets) ==
  LET ok == {i \in 1..Len(brokerList) :
               /\ brokerList[i].Locality = targetLocality
               /\ brokerList[i].ID # sourceID
               /\ brokerList[i].ID \notin targets}
  IN IF ok = {} THEN <<>>
     ELSE <<brokerList[CHOOSE i \in ok : \A j \in ok : i <= j]>>

\* c.Add(&kafkazk.Broker{ID: id}) for every offload target.
RECURSIVE AddTargets(_, _)
AddTargets(cs, targets) ==
  IF targets = {} THEN cs
  ELSE LET id == CHOOSE x \in targets : TRUE
       IN AddTargets(add(cs, [ID |-> id, Locality |-> "", StorageFree |-> 0,
                               Used |-> 0, Replace |-> FALSE]).cs,
                     targets \ {id})

\* Destination by constraints: best candidate by storage under the
\* constraints of the partition's other replicas and of the offload targets.
\* The outcome of BestCandidate: the broker (or none) and the list, whose
\* brokers are those of the broker map.
destinationConstrained(brokerList, brks, p, sourceID, targets) ==
  LET Keep(id) == id # sourceID
      kept == SelectSeq(p.Replicas, Keep)
      replicaSet == [i \in 1..Len(kept) |-> brks[kept[i]]]
      cs == AddTargets(mergeConstraints(replicaSet), targets)
  IN CHOOSE r \in bestCandidate(brokerList, cs, "storage", 0) : TRUE

\* sourceFree > meanStorageFree * (1 + tolerance), mean = sum / n.
sourceAboveLimit(sourceFree, sum, n, tol) ==
  sourceFree * n * 100 > sum * (100 + tol)

\* destFree < meanStorageFree * (1 - tolerance).
destBelowLimit(destFree, sum, n, tol) ==
  destFree * n * 100 < sum * (100 - tol)

\* A plausible slip: no break after a placement.
nextAfterPlacementNoBreak(n, i) == i + 1

\* The index the partition loop goes on with after a placement: the break
\* leaves the loop.
nextAfterPlacement(n, i) == n + 1

\* The destination found for partition p, and the broker map after the
\* search (BestCandidate counts a use of the broker it returns).
findDestination(brokerList, brks, p, env) ==
  IF env.localityScoped
  THEN [ret |-> destinationScoped(brokerList, brks[env.sourceID].Locality,
                                  env.sourceID, env.offloadTargetsMap),
        list |-> brokerList]
  ELSE destinationConstrained(brokerList, brks, p, env.sourceID, env.offloadTargetsMap)

\* A plausible slip: the source is not credited the partition's size.
placeNoSourceCredit(st, env, p, dest, sourceFree, destFree) ==
  [st EXCEPT
     !.relos = (env.sourceID :>
                  Append(RelosOf(st.relos, env.sourceID),
                         [partition |-> p, destination |-> dest.ID]))
               @@ st.relos,
     !.reloCount = @ + 1,
     !.plan = planAdd(st.plan, p, <<env.sourceID, dest.ID>>),
     !.brokers = [@ EXCEPT ![dest.ID].StorageFree = destFree],
     !.mappings = MappingsRemove(st.mappings, env.sourceID, p)]

\* Scheduling the relocation of p from the source to dest: the relos list,
\* the plan, both brokers' storage free, and the source's mappings.
place(st, env, p, dest, sourceFree, destFree) ==
  [st EXCEPT
     !.relos = (env.sourceID :>
                  Append(RelosOf(st.relos, env.sourceID),
                         [partition |-> p, destination |-> dest.ID]))
               @@ st.relos,
     !.reloCount = @ + 1,
     !.plan = planAdd(st.plan, p, <<env.sourceID, dest.ID>>),
     !.brokers = [[@ EXCEPT ![env.sourceID].StorageFree = sourceFree]
                    EXCEPT ![dest.ID].StorageFree = destFree],
     !.mappings = MappingsRemove(st.mappings, env.sourceID, p)]

\* The loop of planRelocationsForBroker over the source's top partitions,
\* from the i-th.  st is what the loop changes; env what it only reads.
RECURSIVE planLoop(_, _, _, _)

\* A plausible slip: the destination's limit is not checked.
decideNoDestCheck(topPartn, i, st, env, p, dest, sourceFree, destFree) ==
  IF sourceAboveLimit(sourceFree, env.meanSum, env.meanCount, env.tolerance)
  THEN planLoop(topPartn, i + 1, st, env)
  ELSE planLoop(topPartn, nextAfterPlacement(Len(topPartn), i),
                place(st, env, p, dest, sourceFree, destFree), env)

\* A plausible slip: the relocation is counted ahead of the tolerance checks.
decideCountsRejected(topPartn, i, st, env, p, dest, sourceFree, destFree) ==
  IF sourceAboveLimit(sourceFree, env.meanSum, env.meanCount, env.tolerance)
  THEN planLoop(topPartn, i + 1, [st EXCEPT !.reloCount = @ + 1], env)
  ELSE IF destBelowLimit(destFree, env.meanSum, env.meanCount, env.tolerance)
  THEN planLoop(topPartn, i + 1, [st EXCEPT !.reloCount = @ + 1], env)
  ELSE planLoop(topPartn, nextAfterPlacement(Len(topPartn), i),
                place(st, env, p, dest, sourceFree, destFree), env)

\* The tolerance checks on a destination found, and the placement.
decide(topPartn, i, st, env, p, dest, sourceFree, destFree) ==
  IF sourceAboveLimit(sourceFree, env.meanSum, env.meanCount, env.tolerance)
  THEN planLoop(topPartn, i + 1, st, env)
  ELSE IF destBelowLimit(destFree, env.meanSum, env.meanCount, env.tolerance)
  THEN planLoop(topPartn, i + 1, st, env)
  ELSE planLoop(topPartn, nextAfterPlacement(Len(topPartn), i),
                place(st, env, p, dest, sourceFree, destFree), env)

\* A plausible slip: with no destination the loop goes on to the next
\* partition.
withDestinationContinue(topPartn, i, st, env, p, pSize, ret) ==
  IF ret = <<>> THEN planLoop(topPartn, i + 1, st, env)
  ELSE decide(topPartn, i, st, env, p, ret[1],
              st.brokers[env.sourceID].StorageFree + pSize,
              ret[1].StorageFree - pSize)

\* With no destination the call returns; with one, the storage both brokers
\* would be left with is worked out.
withDestination(topPartn, i, st, env, p, pSize, ret) ==
  IF ret = <<>> THEN st
  ELSE decide(topPartn, i, st, env, p, ret[1],
              st.brokers[env.sourceID].StorageFree + pSize,
              ret[1].StorageFree - pSize)

\* One partition of the loop, d being the outcome of the search.
iteration(topPartn, i, st, env, p, d) ==
  withDestination(topPartn, i,
                  [st EXCEPT !.brokers = FromList(@, d.list), !.examined = i],
                  env, p, Size(env.partitionMeta, p), d.ret)

planLoop(topPartn, i, st, env) ==
  IF i > Len(topPartn) THEN st
  ELSE iteration(topPartn, i, st, env, topPartn[i],
                 findDestination(SortByStorage(List(st.brokers)), st.brokers,
                                 topPartn[i], env))

\* planRelocationsForBroker from the top partitions on.
planFrom(topPartn, flags, params) ==
  planLoop(topPartn, 1,
           [brokers |-> params.brokers, plan |-> params.plan, relos |-> params.relos,
            mappings |-> params.mappings, reloCount |-> 0, examined |-> 0,
            topPartn |-> Len(topPartn)],
           [sourceID |-> params.sourceID,
            partitionMeta |-> params.partitionMeta,
            offloadTargetsMap |-> params.offloadTargetsMap,
            tolerance |-> flags.tolerance,
            localityScoped |-> flags.localityScoped,
            meanSum |-> MeanSum(params.brokers),
            meanCount |-> MeanCount(params.brokers)])

\* planRelocationsForBroker(cmd, params): the return value reloCount, what
\* the call leaves in the maps params shares with the caller, and how many
\* of the topPartn top partitions it examined.
planRelocationsForBroker(flags, params) ==
  planFrom(LargestPartitions(params.mappings, params.sourceID,
                             params.topPartitionsLimit, params.partitionMeta),
           flags, params)

\* The replicas of a partition after the traversal of applyRelocationPlan:
\* at each position, with r the ID found there, every pair whose source is r
\* writes its destination, the last such pair's staying.
RECURSIVE replaceAt(_, _, _)
replaceAt(r, pairs, cur) ==
  IF pairs = <<>> THEN cur
  ELSE replaceAt(r, Tail(pairs), IF r = Head(pairs)[1] THEN Head(pairs)[2] ELSE cur)

\* A plausible slip: only the first pair recorded for a partition is applied.
relocateFirstPairOnly(pl, partn) ==
  LET ip == isPlanned(pl, partn)
  IN IF ip.planned
     THEN [partn EXCEPT !.Replicas =
             [i \in 1..Len(@) |-> replaceAt(@[i], SubSeq(ip.pairs, 1, 1), @[i])]]
     ELSE partn

\* One partition of the traversal of applyRelocationPlan.
relocate(pl, partn) ==
  LET ip == isPlanned(pl, partn)
  IN IF ip.planned
     THEN [partn EXCEPT !.Replicas =
             [i \in 1..Len(@) |-> replaceAt(@[i], ip.pairs, @[i])]]
     ELSE partn

\* applyRelocationPlan(cmd, pm, plan), with the optimize-leaders flag.
applyRelocationPlan(optimize, pmap, pl) ==
  LET traversed == [i \in 1..Len(pmap) |-> relocate(pl, pmap[i])]
  IN IF optimize THEN SimpleLeaderOptimization(traversed) ELSE traversed

\* ------------------------------------------------- autothrottle: throttle
\* The broker ID fields of the throttled replicas entries ("<partition>:<id>").
IDStrings == {"1", "2", "x"}

ThrottleTopics == {"t1"}

ThrottleKinds == <<"leader", "follower">>

ThrottleKey(t) == t \o ".replication.throttled.replicas"

\* strconv.Atoi on the ID field of an entry.
Atoi(ids) ==
  CASE ids = "1" -> [val |-> 1, ok |-> TRUE]
    [] ids = "2" -> [val |-> 2, ok |-> TRUE]
    [] OTHER -> [val |-> 0, ok |-> FALSE]

ErrBadBrokerID(ids) == "Bad broker ID " \o ids
ErrNotInMetrics(id) ==
  "Broker " \o ToString(id) \o " from the topic config not found in the broker metrics map"
ErrUnknownInstanceType == "Unknown instance type"
ErrFetchingTopicConfig == "Error fetching topic config"
ErrMetrics == "metrics error"
Panic == "panic: nil pointer dereference"

\* BWLimits: the instance types with a known limit.
BWLimits == {"d2.4xlarge", "d2.2xlarge", "d2.xlarge"}

\* brokersFromThrottleList: the IDs of the entries up to the first one that
\* does not parse, and the error for that one.
RECURSIVE parseThrottleList(_, _, _)
parseThrottleList(l, i, acc) ==
  IF i > Len(l) THEN [brokers |-> acc, err |-> NoError]
  ELSE IF ~Atoi(l[i].broker).ok
  THEN [brokers |-> acc, err |-> ErrBadBrokerID(l[i].broker)]
  ELSE parseThrottleList(l, i + 1, Append(acc, Atoi(l[i].broker).val))

brokersFromThrottleList(l) == parseThrottleList(l, 1, <<>>)

\* The first loop of brokersFromConfig: the errors of the two lists, in
\* order, and the IDs found in each (bids).
RECURSIVE collectBids(_, _, _, _)
collectBids(cfg, k, errs, bids) ==
  IF k > Len(ThrottleKinds) THEN [errs |-> errs, bids |-> bids]
  ELSE IF ThrottleKey(ThrottleKinds[k]) \notin DOMAIN cfg
  THEN collectBids(cfg, k + 1, errs, bids)
  ELSE collectBids(cfg, k + 1,
         IF brokersFromThrottleList(cfg[ThrottleKey(ThrottleKinds[k])]).err # NoError
         THEN Append(errs, brokersFromThrottleList(cfg[ThrottleKey(ThrottleKinds[k])]).err)
         ELSE errs,
         [bids EXCEPT ![ThrottleKinds[k]] =
            @ \cup Range(brokersFromThrottleList(cfg[ThrottleKey(ThrottleKinds[k])]).brokers)])

\* The second loop of brokersFromConfig, over the two maps in the order the
\* runtime gives: with every ID in the metrics, both lists in full; with one
\* missing, the error for the ID the loop met first and the brokers appended
\* before it (any part of its own list, and the other list whole or not at
\* all when that one has no missing ID).
lookupBids(b, bids) ==
  LET missing(t) == bids[t] \ DOMAIN b
      other(t) == IF t = "leader" THEN "follower" ELSE "leader"
      lists(t, mine, others) ==
        IF t = "leader" THEN [leader |-> mine, follower |-> others]
        ELSE [leader |-> others, follower |-> mine]
  IN IF missing("leader") = {} /\ missing("follower") = {}
     THEN {[brokers |-> bids, errs |-> <<>>]}
     ELSE UNION {{[brokers |-> lists(t, mine, others), errs |-> <<ErrNotInMetrics(id)>>] :
                    mine \in SUBSET (bids[t] \ missing(t)),
                    others \in (IF missing(other(t)) = {}
                                THEN {{}, bids[other(t)]} ELSE {{}}),
                    id \in missing(t)} :
                 t \in {x \in {"leader", "follower"} : missing(x) # {}}}

\* brokersFromConfig: the possible results, the brokers by their IDs.
brokersFromConfig(b, cfg, cb) ==
  IF cb.errs # <<>>
  THEN {[brokers |-> [leader |-> {}, follower |-> {}], errs |-> cb.errs]}
  ELSE lookupBids(b, cb.bids)

\* replicasFromTopicConfigs: over the topics in the order the runtime gives,
\* the errors accumulated and the leaders and followers appended.
RECURSIVE replicasFromTopicConfigs(_, _, _, _)
replicasFromTopicConfigs(b, cfgs, todo, acc) ==
  IF todo = {} THEN {acc}
  ELSE UNION {UNION {replicasFromTopicConfigs(b, cfgs, todo \ {topic},
                       [Leaders |-> acc.Leaders \cup o.brokers.leader,
                        Followers |-> acc.Followers \cup o.brokers.follower,
                        errs |-> acc.errs \o o.errs]) :
                     o \in brokersFromConfig(b, cfgs[topic],
                             collectBids(cfgs[topic], 1, <<>>,
                                         [leader |-> {}, follower |-> {}]))} :
              topic \in todo}

\* highestLeaderNetTX: a leader with the highest NetTX above 0 (the first of
\* them in the order of the list), none when there is no such leader.
highestLeaderNetTX(b, leaders) ==
  {id \in leaders : b[id].NetTX > 0 /\ \A o \in leaders : b[o].NetTX <= b[id].NetTX}

\* Limits.headroom on the constraining leader: the error returned, a nil
\* leader being dereferenced.
headroom(b, constraining) ==
  IF constraining = {} THEN {Panic}
  ELSE {IF b[id].InstanceType \in BWLimits THEN NoError ELSE ErrUnknownInstanceType :
          id \in constraining}

\* What updateReplicationThrottle returns when errs is not empty: the
\* variable err, which the calls before left nil.
returnOnErrs(errs, lastErr) == lastErr

\* updateReplicationThrottle from replicasFromTopicConfigs on.
throttleFrom(b, o) ==
  IF Len(o.errs) > 0 THEN {returnOnErrs(o.errs, NoError)}
  ELSE headroom(b, highestLeaderNetTX(b, o.Leaders))

\* ------------------------------------------- topicmappr: phased reassignment
\* PartitionMap.Topics(): the topics of a map.
Topics(pmap) == {pmap[i].Topic : i \in 1..Len(pmap)}

\* PartitionMap.ReplicaSets(topic): partition number -> replica set.
ReplicaSetsOf(pmap, topic) ==
  [n \in {pmap[i].Partition : i \in {k \in 1..Len(pmap) : pmap[k].Topic = topic}} |->
     pmap[CHOOSE i \in 1..Len(pmap) :
            pmap[i].Topic = topic /\ pmap[i].Partition = n].Replicas]

\* PartitionMap.Copy(): a copy that shares nothing with the map.
Copy(pmap) == pmap

notInReplicaSet(id, rs) == \A i \in 1..Len(rs) : rs[i] # id

\* The inner loop of phasedReassignment for one topic: the leader of the
\* original replica set is prepended where the replica set does not hold it.
prependLeaders(pmap, topic, rs) ==
  [i \in 1..Len(pmap) |->
     IF pmap[i].Topic = topic /\ notInReplicaSet(rs[pmap[i].Partition][1], pmap[i].Replicas)
     THEN [pmap[i] EXCEPT !.Replicas = <<rs[pmap[i].Partition][1]>> \o @]
     ELSE pmap[i]]

\* The outer loop of phasedReassignment, over the topics of the output map.
RECURSIVE phaseTopics(_, _, _)
phaseTopics(pmap1, phase1, topics) ==
  IF topics = {} THEN phase1
  ELSE LET topic == CHOOSE t \in topics : TRUE
       IN phaseTopics(pmap1,
                      prependLeaders(phase1, topic, ReplicaSetsOf(pmap1, topic)),
                      topics \ {topic})

\* phasedReassignment(pm1, pm2).
phasedReassignment(pmap1, pmap2) == phaseTopics(pmap1, Copy(pmap2), Topics(pmap2))

\* ------------------------------------------------------------------ state
VARIABLES
  bl,        \* selector: the broker list (a slice of *Broker)
  c,         \* selector: the shared *constraints
  ret,       \* selector: the broker returned by the last call, <<>> for nil
  err,       \* selector: the error returned by the last call
  call,      \* selector: the last call made
  c0,        \* selector: the constraints before the first call
  returned,  \* selector: the brokers returned so far, in order
  brokers,   \* rebalance: the BrokerMap, ID -> *Broker
  pm,        \* rebalance: the PartitionMap's Partitions
  pm0,       \* rebalance: the partition map as it was read
  partitionMeta,  \* rebalance: topic -> partition -> size
  mappings,  \* rebalance: broker ID -> the partitions mapped to it
  plan,      \* rebalance: the relocationPlan, topic -> partition -> pairs
  relos,     \* rebalance: source ID -> the relocations planned off it
  targets,   \* rebalance: the offload targets (offloadTargetsMap)
  flags,     \* rebalance: the tolerance and locality-scoped flags
  topPartitionsLimit,  \* rebalance: params.topPartitionsLimit
  pc,        \* rebalance: "plan", "apply" or "done"
  queue,     \* rebalance: the sources still to visit in this pass
  active,    \* rebalance: the sources not retired
  sweepRelos,  \* rebalance: relocations planned in this pass
  pass,      \* rebalance: params.pass
  last,      \* rebalance: the last planRelocationsForBroker call and its result
  optimizeLeaders,  \* rebalance: the optimize-leaders flag applyRelocationPlan read
  pm1,       \* phased: the input map (the current replica sets)
  pm2,       \* phased: the output map
  phase1pm,  \* phased: the map phasedReassignment returned, <<>> before the call
  topicConfigs,   \* throttle: topic -> the TopicConfig in the metadata store
  brokerMetrics,  \* throttle: broker ID -> its metrics, as GetMetrics gives them
  failing,        \* throttle: the external call that fails, "" for none
  throttleErrs,   \* throttle: the errs of replicasFromTopicConfigs, as strings
  throttleRet     \* throttle: what updateReplicationThrottle returned

selVars == <<bl, c, ret, err, call, c0, returned>>
rebVars == <<brokers, pm, pm0, partitionMeta, mappings, plan, relos, targets, flags,
             topPartitionsLimit, pc, queue, active, sweepRelos, pass, last,
             optimizeLeaders>>
phaseVars == <<pm1, pm2, phase1pm>>
throttleVars == <<topicConfigs, brokerMetrics, failing, throttleErrs, throttleRet>>
vars == <<selVars, rebVars, phaseVars, throttleVars>>

NoCall == [op |-> "none", by |-> "", idx |-> 0]
NoPlanCall == [sourceID |-> 0, reloCount |-> 0, examined |-> 0, topPartn |-> 0]

\* The selector is not in use.
SelIdle ==
  /\ bl = <<>>
  /\ c = newConstraints
  /\ ret = <<>>
  /\ err = NoError
  /\ call = NoCall
  /\ c0 = newConstraints
  /\ returned = <<>>

\* The rebalance planner is not in use.
RebIdle ==
  /\ brokers = <<>>
  /\ pm = <<>>
  /\ pm0 = <<>>
  /\ partitionMeta = <<>>
  /\ mappings = <<>>
  /\ plan = <<>>
  /\ relos = <<>>
  /\ targets = {}
  /\ flags = [tolerance |-> 0, localityScoped |-> FALSE]
  /\ topPartitionsLimit = 0
  /\ pc = "idle"
  /\ queue = <<>>
  /\ active = {}
  /\ sweepRelos = 0
  /\ pass = 0
  /\ last = NoPlanCall
  /\ optimizeLeaders = FALSE

\* phasedReassignment is not in use.
PhaseIdle ==
  /\ pm1 = <<>>
  /\ pm2 = <<>>
  /\ phase1pm = <<>>

NotCalled == "not called"

\* The autothrottle is not in use.
ThrottleIdle ==
  /\ topicConfigs = <<>>
  /\ brokerMetrics = <<>>
  /\ failing = ""
  /\ throttleErrs = <<>>
  /\ throttleRet = NotCalled

\* --------------------------------------------------------------- selector
BrokerLists ==
  UNION {{s \in [1..n -> [ID : BrokerIDs, Locality : Localities,
                          StorageFree : 0..MaxStorage, Used : {0}, Replace : {FALSE}]] :
            \A i, j \in 1..n : i # j => s[i].ID # s[j].ID} : n \in 0..MaxListLen}

InitSel ==
  /\ bl \in BrokerLists
  /\ c \in [requestSize : 0..MaxRequest, locality : SUBSET {"a"},
            id : SUBSET (1..MaxForbiddenID)]
  /\ ret = <<>>
  /\ err = NoError
  /\ call = NoCall
  /\ c0 = c
  /\ returned = <<>>
  /\ RebIdle
  /\ PhaseIdle
  /\ ThrottleIdle

\* One call bl.bestCandidate(c, by, p).
BestCandidate(by, p) ==
  \E r \in bestCandidate(bl, c, by, p) :
    /\ bl' = r.list
    /\ c' = r.cs
    /\ ret' = r.ret
    /\ err' = r.err
    /\ call' = [op |-> "bestCandidate", by |-> by, idx |-> 0]
    /\ returned' = returned \o r.ret
    /\ UNCHANGED <<c0, rebVars, phaseVars, throttleVars>>

\* One call c.passes(bl[i]).
Passes(i) ==
  /\ err' = passes(c, bl[i])
  /\ ret' = <<>>
  /\ call' = [op |-> "passes", by |-> "", idx |-> i]
  /\ UNCHANGED <<bl, c, c0, returned, rebVars, phaseVars, throttleVars>>

NextSel ==
  \/ \E by \in Methods, p \in Seeds : BestCandidate(by, p)
  \/ \E i \in 1..Len(bl) : Passes(i)

SpecSel == InitSel /\ [][NextSel]_vars

\* ------------------------------------------------------ merging constraints
\* Replica sets as broker lists, some of the brokers marked for replacement.
MergeLists ==
  UNION {{s \in [1..n -> [ID : BrokerIDs, Locality : Localities,
                          StorageFree : 0..MaxStorage, Used : {0}, Replace : BOOLEAN]] :
            \A i, j \in 1..n : i # j => s[i].ID # s[j].ID} : n \in 0..MaxListLen}

InitMerge ==
  /\ bl \in MergeLists
  /\ c = newConstraints
  /\ ret = <<>>
  /\ err = NoError
  /\ call = NoCall
  /\ c0 = newConstraints
  /\ returned = <<>>
  /\ RebIdle
  /\ PhaseIdle
  /\ ThrottleIdle

\* c = mergeConstraints(bl).
MergeConstraints ==
  /\ c' = mergeConstraints(bl)
  /\ c0' = c'
  /\ call' = [op |-> "mergeConstraints", by |-> "", idx |-> 0]
  /\ UNCHANGED <<bl, ret, err, returned, rebVars, phaseVars, throttleVars>>

NextMerge == MergeConstraints

SpecMerge == InitMerge /\ [][NextMerge]_vars

\* -------------------------------------------------------------- rebalance
\* Replica sets: Replication distinct brokers, the leader first.
ReplicaSets ==
  {r \in [1..Replication -> BrokerIDs] : \A i, j \in 1..Replication : i # j => r[i] # r[j]}

\* Brokers that hold no partition of the map.
NewBrokers(pmap) ==
  {id \in BrokerIDs : \A i \in 1..Len(pmap) : id \notin Range(pmap[i].Replicas)}

\* The state the rebalance command plans from: the brokers validated (none
\* missing or marked for replacement), the offload targets chosen (at least
\* one, or the command exits), the mappings of the partition map, an empty
\* plan, the targets sorted by storage free.
Init ==
  /\ SelIdle
  /\ PhaseIdle
  /\ ThrottleIdle
  /\ \E loc \in [BrokerIDs -> RackIDs], free \in [BrokerIDs -> FreeLevels] :
       brokers = [id \in BrokerIDs |->
                    [ID |-> id, Locality |-> loc[id], StorageFree |-> free[id],
                     Used |-> 0, Replace |-> FALSE]]
  /\ \E r \in [1..NumPartitions -> ReplicaSets] :
       pm = [i \in 1..NumPartitions |->
               [Topic |-> TopicName, Partition |-> i - 1, Replicas |-> r[i]]]
  /\ pm0 = pm
  /\ \E sz \in [0..(NumPartitions - 1) -> 1..MaxSize] :
       partitionMeta = (TopicName :> sz)
  /\ mappings = Mappings(pm, BrokerIDs)
  /\ plan = <<>>
  /\ relos = <<>>
  /\ \E stg \in ThresholdsGB : targets = offloadTargets(brokers, NewBrokers(pm), stg)
  /\ targets # {}
  /\ flags \in [tolerance : Tolerances, localityScoped : BOOLEAN]
  /\ topPartitionsLimit = TopLimit
  /\ pc = "plan"
  /\ queue = SortTargets(brokers, targets)
  /\ active = targets
  /\ sweepRelos = 0
  /\ pass = 1
  /\ last = NoPlanCall
  /\ optimizeLeaders = FALSE

\* One call of planRelocationsForBroker, for the next source of the pass.  A
\* source that gave no relocation is retired.
PlanStep ==
  /\ pc = "plan"
  /\ queue # <<>>
  /\ \E r \in {planRelocationsForBroker(flags,
                 [sourceID |-> Head(queue), relos |-> relos, mappings |-> mappings,
                  brokers |-> brokers, partitionMeta |-> partitionMeta, plan |-> plan,
                  pass |-> pass, topPartitionsLimit |-> topPartitionsLimit,
                  offloadTargetsMap |-> targets])} :
        /\ brokers' = r.brokers
        /\ plan' = r.plan
        /\ relos' = r.relos
        /\ mappings' = r.mappings
        /\ last' = [sourceID |-> Head(queue), reloCount |-> r.reloCount,
                    examined |-> r.examined, topPartn |-> r.topPartn]
        /\ sweepRelos' = sweepRelos + r.reloCount
        /\ active' = IF r.reloCount = 0 THEN active \ {Head(queue)} ELSE active
        /\ queue' = Tail(queue)
  /\ UNCHANGED <<selVars, phaseVars, throttleVars, pm, pm0, partitionMeta, targets, flags, topPartitionsLimit,
                 pc, pass, optimizeLeaders>>

\* The end of a pass: another pass over the sources not retired when this
\* one planned a relocation.
NextPass ==
  /\ pc = "plan"
  /\ queue = <<>>
  /\ sweepRelos > 0
  /\ pass < MaxPass
  /\ queue' = SortTargets(brokers, active)
  /\ sweepRelos' = 0
  /\ pass' = pass + 1
  /\ UNCHANGED <<selVars, phaseVars, throttleVars, brokers, pm, pm0, partitionMeta, mappings, plan, relos,
                 targets, flags, topPartitionsLimit, pc, active, last, optimizeLeaders>>

\* The end of planning: a pass planned nothing.
EndPlanning ==
  /\ pc = "plan"
  /\ queue = <<>>
  /\ sweepRelos = 0
  /\ pc' = "apply"
  /\ UNCHANGED <<selVars, phaseVars, throttleVars, brokers, pm, pm0, partitionMeta, mappings, plan, relos,
                 targets, flags, topPartitionsLimit, queue, active, sweepRelos, pass,
                 last, optimizeLeaders>>

\* applyRelocationPlan(cmd, pm, plan).
Apply(optimize) ==
  /\ pc = "apply"
  /\ pm' = applyRelocationPlan(optimize, pm, plan)
  /\ optimizeLeaders' = optimize
  /\ pc' = "done"
  /\ UNCHANGED <<selVars, phaseVars, throttleVars, brokers, pm0, partitionMeta, mappings, plan, relos, targets,
                 flags, topPartitionsLimit, queue, active, sweepRelos, pass, last>>

Next ==
  \/ PlanStep
  \/ NextPass
  \/ EndPlanning
  \/ \E optimize \in BOOLEAN : Apply(optimize)

Spec == Init /\ [][Next]_vars

\* A call of planRelocationsForBroker can be made exactly when the pass has a
\* source left, and making it takes the source off the queue.
PlanStepEnabled == pc = "plan" /\ queue # <<>>

PlanStepTaken == PlanStepEnabled /\ queue' = Tail(queue)

\* The command runs on: the call that can be made is made and returns (weak
\* fairness of PlanStep, its enabling condition written out), and the loop
\* over the passes goes on or ends when it can.
Fairness ==
  /\ ([]<>(~PlanStepEnabled) \/ []<><<PlanStepTaken>>_vars)
  /\ WF_vars(NextPass)
  /\ WF_vars(EndPlanning)

SpecLive == Init /\ [][Next]_vars /\ Fairness

\* ----------------------------------------------------------- autothrottle
\* Throttled replicas lists: 1 to MaxThrottleList entries.
ThrottleLists ==
  UNION {[1..n -> [partition : {"0"}, broker : IDStrings]] : n \in 1..MaxThrottleList}

TopicConfigs ==
  UNION {[ks -> ThrottleLists] :
           ks \in SUBSET {ThrottleKey(ThrottleKinds[k]) : k \in 1..Len(ThrottleKinds)}}

\* Broker metrics: some of the brokers, with or without outbound traffic, of
\* an instance type with a known limit or not.
BrokerMetricsMaps ==
  UNION {[ids -> {[NetTX |-> 0, InstanceType |-> "d2.xlarge"],
                  [NetTX |-> 1, InstanceType |-> "d2.xlarge"],
                  [NetTX |-> 1, InstanceType |-> "m4.large"]}] :
           ids \in SUBSET (1..NumMetricBrokers)}

ExternalCalls == {"GetTopicConfig", "NewKafkaMetrics", "GetMetrics"}

InitThrottle ==
  /\ SelIdle
  /\ RebIdle
  /\ PhaseIdle
  /\ topicConfigs \in [ThrottleTopics -> TopicConfigs]
  /\ brokerMetrics \in BrokerMetricsMaps
  /\ failing \in ExternalCalls \cup {""}
  /\ throttleErrs = <<>>
  /\ throttleRet = NotCalled

\* One call updateReplicationThrottle(topics, zk).
UpdateReplicationThrottle ==
  /\ \/ /\ failing = "GetTopicConfig"
        /\ throttleErrs' = <<>>
        /\ throttleRet' = ErrFetchingTopicConfig
     \/ /\ failing \in {"NewKafkaMetrics", "GetMetrics"}
        /\ throttleErrs' = <<>>
        /\ throttleRet' = ErrMetrics
     \/ /\ failing = ""
        /\ \E o \in replicasFromTopicConfigs(brokerMetrics, topicConfigs, ThrottleTopics,
                      [Leaders |-> {}, Followers |-> {}, errs |-> <<>>]) :
             /\ throttleErrs' = o.errs
             /\ throttleRet' \in throttleFrom(brokerMetrics, o)
  /\ UNCHANGED <<selVars, rebVars, phaseVars, topicConfigs, brokerMetrics, failing>>

NextThrottle == UpdateReplicationThrottle

SpecThrottle == InitThrottle /\ [][NextThrottle]_vars

\* ----------------------------------------------------- phased reassignment
\* The partitions of both maps: partition 0 of two topics.
PhasePartitions == <<[Topic |-> "t1", Partition |-> 0], [Topic |-> "t2", Partition |-> 0]>>

\* Replica sets of 1 to MaxPhaseReplicas distinct brokers.
PhaseReplicaSets ==
  UNION {{r \in [1..n -> BrokerIDs] : \A i, j \in 1..n : i # j => r[i] # r[j]} :
           n \in 1..MaxPhaseReplicas}

PhaseMaps ==
  {[i \in 1..Len(PhasePartitions) |->
      [Topic |-> PhasePartitions[i].Topic, Partition |-> PhasePartitions[i].Partition,
       Replicas |-> r[i]]] :
     r \in [1..Len(PhasePartitions) -> PhaseReplicaSets]}

InitPhase ==
  /\ SelIdle
  /\ RebIdle
  /\ ThrottleIdle
  /\ pm1 \in PhaseMaps
  /\ pm2 \in PhaseMaps
  /\ phase1pm = <<>>

\* phase1pm = phasedReassignment(pm1, pm2).
PhasedReassignment ==
  /\ phase1pm' = phasedReassignment(pm1, pm2)
  /\ UNCHANGED <<selVars, rebVars, throttleVars, pm1, pm2>>

NextPhase == PhasedReassignment

SpecPhase == InitPhase /\ [][NextPhase]_vars

\* ------------------------------------------------- selection and rebalance
\* Either use of the brokers' storage accounting: candidate selection under
\* a request size, or the planning of relocations.
InitAll == InitSel \/ Init

NextAll ==
  \/ (pc = "idle" /\ NextSel)
  \/ (pc # "idle" /\ Next)

SpecAll == InitAll /\ [][NextAll]_vars

\* ======================================================== rebalance claims
NoDuplicates(r) == \A i, j \in 1..Len(r) : i # j => r[i] # r[j]

\* The relocation the last call recorded.
Recorded(rl, src) == rl[src][Len(rl[src])]

\* The number of pairs in a plan.
RECURSIVE PairCount(_, _)
PairCount(pl, ps) ==
  IF ps = {} THEN 0
  ELSE LET q == CHOOSE x \in ps : TRUE
       IN Len(PlanPairs(pl, q)) + PairCount(pl, ps \ {q})

PlanSize(pl) == PairCount(pl, Range(pm0))

\* The pairs applied one at a time, in recorded order, each replacing the
\* source ID by the destination ID at the source's position.
RECURSIVE InOrder(_, _)
InOrder(r, pairs) ==
  IF pairs = <<>> THEN r
  ELSE InOrder([i \in 1..Len(r) |-> IF r[i] = Head(pairs)[1] THEN Head(pairs)[2] ELSE r[i]],
               Tail(pairs))

\* C1: from a partition map without duplicate replicas (every initial state),
\* after the planning passes and applyRelocationPlan no replica set holds a
\* broker ID twice.
C1_NoDuplicateReplicas ==
  pc = "done" => \A i \in 1..Len(pm) : NoDuplicates(pm[i].Replicas)

\* C2: a relocation of a partition of size s from S to D is recorded only if
\* S.StorageFree + s <= mean * (1 + tolerance) and
\* D.StorageFree - s >= mean * (1 - tolerance), the mean being that of the
\* storage free at the start of the call.
C2_ToleranceBand ==
  [][plan' # plan
       => LET src == last'.sourceID
              rel == Recorded(relos', src)
              s == Size(partitionMeta, rel.partition)
          IN /\ (brokers[src].StorageFree + s) * MeanCount(brokers) * 100
                  <= MeanSum(brokers) * (100 + flags.tolerance)
             /\ (brokers[rel.destination].StorageFree - s) * MeanCount(brokers) * 100
                  >= MeanSum(brokers) * (100 - flags.tolerance)]_vars

\* C2 witness: a call skipped its first partition on the tolerance and
\* recorded the relocation of its second.
C2_Witness == last.reloCount = 1 /\ last.examined = 2

\* C3: one call of planRelocationsForBroker returns 0 or 1, and the plan and
\* the source's relos list grow by exactly that many entries.
C3_OnePerPass ==
  [][(pc = "plan" /\ queue # <<>>)
       => /\ last'.reloCount \in {0, 1}
          /\ PlanSize(plan') = PlanSize(plan) + last'.reloCount
          /\ Len(RelosOf(relos', Head(queue)))
               = Len(RelosOf(relos, Head(queue))) + last'.reloCount
          /\ \A id \in BrokerIDs \ {Head(queue)} : RelosOf(relos', id) = RelosOf(relos, id)]_vars

\* C3 witness: with two top partitions, the first was placed and the second
\* not looked at.
C3_Witness == last.reloCount = 1 /\ last.topPartn = 2 /\ last.examined = 1

\* The replica set of every partition with planned pairs is the in-order
\* application of the pairs to the replica set read.
AppliedInOrder ==
  \A i \in 1..Len(pm) :
    PlanPairs(plan, pm0[i]) # <<>>
      => pm[i].Replicas = InOrder(pm0[i].Replicas, PlanPairs(plan, pm0[i]))

\* C4 as stated: whatever applyRelocationPlan was asked to do.
C4_AsStated == pc = "done" => AppliedInOrder

\* C4: without the optimize-leaders flag, the replica sets applyRelocationPlan
\* produces are the in-order application of the recorded pairs, each pair
\* putting the destination at the source's position.
C4_ApplyInOrder == (pc = "done" /\ ~optimizeLeaders) => AppliedInOrder

\* C4 witness: a partition with two recorded pairs, its leader among the
\* sources, was rewritten.
C4_Witness ==
  /\ pc = "done" /\ ~optimizeLeaders
  /\ \E i \in 1..Len(pm) :
       /\ Len(PlanPairs(plan, pm0[i])) = 2
       /\ pm[i].Replicas[1] # pm0[i].Replicas[1]

\* C5: the destination of every recorded relocation is not the source and
\* not an offload target and, when locality scoped, has the source's
\* locality.
C5_DestinationExclusion ==
  \A src \in DOMAIN relos :
    \A k \in 1..Len(relos[src]) :
      /\ relos[src][k].destination # src
      /\ relos[src][k].destination \notin targets
      /\ flags.localityScoped
           => brokers[relos[src][k].destination].Locality = brokers[src].Locality

\* C5 witness: a locality scoped relocation, with another offload target in
\* the source's locality.
C5_Witness ==
  /\ flags.localityScoped
  /\ \E src \in DOMAIN relos :
       /\ relos[src] # <<>>
       /\ \E t \in targets \ {src} : brokers[t].Locality = brokers[src].Locality

\* ========================================================= selector claims
\* The broker the last passes call examined.
Checked == bl[call.idx]

StorageOK(cs, b) == b.StorageFree - cs.requestSize >= 0
LocalityOK(cs, b) == b.Locality \notin cs.locality
IDOK(cs, b) == b.ID \notin cs.id

\* The brokers of a list that pass a constraint set.
Passing(s, cs) == {b \in Range(s) : passes(cs, b) = NoError}

\* The broker of the list with the given ID (IDs are unique in a list).
ByID(s, id) == CHOOSE b \in Range(s) : b.ID = id

\* The last step was a bestCandidate call that returned a broker.
Selected == call.op = "bestCandidate" /\ ret # <<>>

\* C6: over any sequence of bestCandidate calls sharing one constraint set,
\* no broker ID is returned twice, no two returned brokers share a non-empty
\* locality, no returned broker has an ID or a locality that was forbidden
\* before the first call, and a call made when no broker passes (it returns
\* no broker, and nothing it leaves behind lets a later one pass) returns an
\* error.
C6_CumulativeExclusion ==
  /\ \A i, j \in 1..Len(returned) :
       i < j => /\ returned[i].ID # returned[j].ID
                /\ (returned[i].Locality = returned[j].Locality
                      => returned[i].Locality = "")
  /\ \A i \in 1..Len(returned) :
       /\ returned[i].ID \notin c0.id
       /\ returned[i].Locality \notin c0.locality
  /\ (call.op = "bestCandidate" /\ ret = <<>>) => err # NoError

\* C7: a "storage" call returns, among the brokers that pass, the one with
\* the greatest storage free and, among equals, the smallest ID; the answer
\* is a function of the set of brokers, not of their order in the list.
C7_StoragePicksBest ==
  [][(call'.op = "bestCandidate" /\ call'.by = "storage" /\ Passing(bl, c) # {})
       => /\ ret' # <<>>
          /\ \E b \in Passing(bl, c) :
               /\ b.ID = ret'[1].ID
               /\ \A o \in Passing(bl, c) :
                    \/ o.StorageFree < b.StorageFree
                    \/ (o.StorageFree = b.StorageFree /\ b.ID <= o.ID)]_vars

\* C7 witness: a first "storage" call chose between two passing brokers of
\* different storage free.
C7_Witness ==
  /\ Selected /\ call.by = "storage" /\ returned = ret
  /\ \E o \in Range(bl) :
       /\ o.ID # ret[1].ID
       /\ passes(c0, o) = NoError
       /\ o.StorageFree < ret[1].StorageFree + c.requestSize

C9_IDViolationReported ==
  (call.op = "passes" /\ StorageOK(c, Checked)) =>
    /\ ~IDOK(c, Checked) => err = ErrID(Checked)
    /\ (IDOK(c, Checked) /\ ~LocalityOK(c, Checked)) => err = ErrLocality(Checked)
    /\ (IDOK(c, Checked) /\ LocalityOK(c, Checked)) => err = NoError

\* The effect of a successful selection on everything but the forbidden
\* localities: the forbidden IDs gain exactly the broker's ID, the broker is
\* charged exactly the request size and used once more, every other broker
\* is as it was, and the request size stays.
SelectionEffect(b) ==
  /\ b.ID \notin c.id
  /\ c'.id = c.id \cup {b.ID}
  /\ c'.requestSize = c.requestSize
  /\ ret'[1] = [b EXCEPT !.StorageFree = @ - c.requestSize, !.Used = @ + 1]
  /\ ret'[1] \in Range(bl')
  /\ Len(bl') = Len(bl)
  /\ \A o \in Range(bl) : o.ID # b.ID => o \in Range(bl')

\* C10 as stated: the forbidden localities gain the broker's locality,
\* whatever it is.
C10_AsStated ==
  [][(call'.op = "bestCandidate" /\ ret' # <<>>)
       => LET b == ByID(bl, ret'[1].ID) IN
          /\ SelectionEffect(b)
          /\ c'.locality = c.locality \cup {b.Locality}]_vars

\* C10: when bestCandidate returns broker b, the forbidden IDs gain exactly
\* b.ID, the forbidden localities gain b's locality when it is not empty and
\* nothing when it is, b.StorageFree is reduced by exactly the request size,
\* b.Used grows by exactly 1, and no other broker changes.
C10_SelectionEffect ==
  [][(call'.op = "bestCandidate" /\ ret' # <<>>)
       => LET b == ByID(bl, ret'[1].ID) IN
          /\ SelectionEffect(b)
          /\ c'.locality = c.locality \cup (IF b.Locality = "" THEN {} ELSE {b.Locality})]_vars

\* C10 witness: a broker without locality was selected from a list of
\* several, with a request size to charge.
C10_Witness ==
  /\ Selected
  /\ ret[1].Locality = ""
  /\ c.requestSize > 0
  /\ Len(bl) > 1

\* C11: a bestCandidate call with a valid method on a list (of any length)
\* in which no broker passes returns no broker and an error, the error being
\* the violation of the last broker of the list as sorted; no call returns
\* neither a broker nor an error.
C11_ExhaustionOutcome ==
  [][(call'.op = "bestCandidate" /\ call'.by \in {"count", "storage"}
        /\ Passing(bl, c) = {})
       => /\ ret' = <<>>
          /\ err' # NoError
          /\ Len(bl') > 0 => err' = passes(c, bl'[Len(bl')])]_vars

\* C12: a bestCandidate call with a method other than "count" and "storage"
\* returns no broker and the invalid selection method error, and leaves the
\* list (its order, every broker's storage free and use count) and the
\* constraints as they were.
C12_InvalidMethod ==
  [][(call'.op = "bestCandidate" /\ call'.by \notin {"count", "storage"})
       => /\ ret' = <<>>
          /\ err' = errInvalidSelectionMethod
          /\ bl' = bl
          /\ c' = c]_vars

\* C12 witness: an unknown method was given with a list that is not in
\* storage order and holds a broker that passes.
C12_Witness ==
  /\ call.op = "bestCandidate" /\ call.by = "random"
  /\ err = errInvalidSelectionMethod
  /\ Passing(bl, c) # {}
  /\ bl # SortByStorage(bl)

\* The brokers of a list that are not marked for replacement.
Staying(s) == {b \in Range(s) : ~b.Replace}

\* C13 as stated: the forbidden localities are the localities of the brokers
\* not marked replace, whatever they are.
C13_AsStated ==
  [][call'.op = "mergeConstraints"
       => /\ c'.id = {b.ID : b \in Staying(bl)}
          /\ c'.locality = {b.Locality : b \in Staying(bl)}
          /\ bl' = bl]_vars

\* C13: mergeConstraints(bl) forbids exactly the IDs of the brokers of bl
\* not marked replace and exactly their non-empty localities; brokers marked
\* replace contribute nothing, the request size is 0, and no broker of bl is
\* modified.
C13_MergeConstraints ==
  [][call'.op = "mergeConstraints"
       => /\ c'.id = {b.ID : b \in Staying(bl)}
          /\ c'.locality = {b.Locality : b \in Staying(bl)} \ {""}
          /\ c'.requestSize = 0
          /\ bl' = bl]_vars

\* C13 witness: a list was merged that holds a broker marked replace whose
\* locality no other broker has, a staying broker without locality and a
\* staying broker with one.
C13_Witness ==
  /\ call.op = "mergeConstraints"
  /\ \E r \in Range(bl) \ Staying(bl) :
       /\ r.Locality # ""
       /\ \A b \in Staying(bl) : b.Locality # r.Locality
  /\ \E b \in Staying(bl) : b.Locality = ""
  /\ \E b \in Staying(bl) : b.Locality # ""

\* C14: with every broker starting at a storage free of 0 or more, request
\* sizes of 0 or more and a tolerance between 0 and 1, no broker's storage
\* free is negative after any sequence of selections or of relocations.
C14_StorageNonNegative ==
  /\ \A i \in 1..Len(bl) : bl[i].StorageFree >= 0
  /\ \A id \in DOMAIN brokers : brokers[id].StorageFree >= 0

\* C14 witness: with the tolerance at 1, relocations brought a destination
\* that had storage free down to none.
C14_Witness ==
  /\ flags.tolerance = 100
  /\ \E src \in DOMAIN relos :
       \E k \in 1..Len(relos[src]) :
         brokers[relos[src][k].destination].StorageFree = 0

\* C15: whenever replicasFromTopicConfigs reported an error (a bad broker ID
\* in a throttled replicas list, a broker of the topic config absent from
\* the broker metrics), updateReplicationThrottle returned an error.
C15_ThrottleErrorsSurfaced ==
  (throttleRet # NotCalled /\ throttleErrs # <<>>) => throttleRet # NoError

\* C16: in the map phasedReassignment(pm1, pm2) returned, the first replica
\* of every partition is the leader the partition has in pm1, and pm2 is as
\* it was.
C16_PhasedKeepsLeaders ==
  [][phase1pm' # phase1pm
       => /\ \A i \in 1..Len(phase1pm') :
               phase1pm'[i].Replicas[1]
                 = ReplicaSetsOf(pm1, phase1pm'[i].Topic)[phase1pm'[i].Partition][1]
          /\ pm2' = pm2]_vars

\* C17: the passes over the offload targets come to an end: planning is
\* eventually over, a pass having planned no relocation.
C17_RelocationLoopTerminates == <>(pc = "apply")

\* C17 witness: planning ended after three passes or more, with sources
\* that had kept giving relocations.
C17_Witness == pc = "apply" /\ pass >= 3 /\ plan # <<>>

\* The storage free of all brokers together.
TotalFree(brks) == SumFree(brks, DOMAIN brks)

\* C18: a relocation adds the partition's size to the source's storage free,
\* takes the same size off the destination's and changes no other broker's;
\* the sum of the storage free of all brokers (and so its mean) is the same
\* after every call of planRelocationsForBroker as before it.
C18_TotalFreeConserved ==
  [][/\ TotalFree(brokers') = TotalFree(brokers)
     /\ plan' # plan
          => LET src == last'.sourceID
                 rel == Recorded(relos', src)
                 s == Size(partitionMeta, rel.partition)
             IN /\ brokers'[src].StorageFree = brokers[src].StorageFree + s
                /\ brokers'[rel.destination].StorageFree
                     = brokers[rel.destination].StorageFree - s
                /\ \A id \in DOMAIN brokers \ {src, rel.destination} :
                     brokers'[id].StorageFree = brokers[id].StorageFree
     /\ plan' = plan
          => \A id \in DOMAIN brokers : brokers'[id].StorageFree = brokers[id].StorageFree]_vars

\* C18 witness: a relocation was recorded in a second pass, after others.
C18_Witness == pass >= 2 /\ last.reloCount = 1 /\ pc = "plan" /\ queue # <<>>

\* No broker can take partition p off the source: locality scoped, none in
\* the source's locality other than the source and the offload targets;
\* otherwise, none outside the offload targets and the partition's other
\* replicas whose locality differs from those of the other replicas.
NoDestination(p, src) ==
  LET others == {p.Replicas[k] : k \in 1..Len(p.Replicas)} \ {src}
      merged == {id \in others : ~brokers[id].Replace}
      usedLocalities == {brokers[id].Locality : id \in merged} \ {""}
  IN IF flags.localityScoped
     THEN ~\E id \in DOMAIN brokers :
             /\ brokers[id].Locality = brokers[src].Locality
             /\ id # src
             /\ id \notin targets
     ELSE ~\E id \in DOMAIN brokers :
             /\ id \notin merged \cup targets
             /\ brokers[id].Locality \notin usedLocalities
             /\ brokers[id].StorageFree >= 0

\* C19: when no destination is found for one of the source's top partitions,
\* the call returns at that partition with 0 relocations, the later top
\* partitions not examined and the plan, the mappings and every storage free
\* unchanged; a partition the tolerance rejects does not end the call.
C19_NoDestinationEndsPass ==
  [][(pc = "plan" /\ queue # <<>>)
       => LET src == Head(queue)
              tp == LargestPartitions(mappings, src, topPartitionsLimit, partitionMeta)
              nd == {i \in 1..Len(tp) : NoDestination(tp[i], src)}
          IN /\ nd # {}
                  => LET m == CHOOSE i \in nd : \A j \in nd : i <= j
                     IN \/ last'.reloCount = 1 /\ last'.examined < m
                        \/ /\ last'.examined = m
                           /\ last'.reloCount = 0
                           /\ plan' = plan
                           /\ mappings' = mappings
                           /\ \A id \in DOMAIN brokers :
                                brokers'[id].StorageFree = brokers[id].StorageFree
             /\ (last'.reloCount = 0 /\ last'.examined < Len(tp))
                  => last'.examined \in nd]_vars

\* C19 witness: a call with two top partitions returned 0 at the first.
C19_Witness == last.reloCount = 0 /\ last.examined = 1 /\ last.topPartn = 2

====
